---- MODULE Spec2Model ----
(***************************************************************************)
(* kvbadger: the key-value adapter of src/badger.go over a Badger v4       *)
(* database.  The adapter's handles (Transaction, Snapshot) wrap one       *)
(* badger.Txn each; the adapter's only state of its own is the field       *)
(* txn.db, set to nil by the first Commit/Rollback/Discard.                *)
(*                                                                         *)
(* The engine calls the adapter makes (db.NewTransaction, Txn.Get,         *)
(* Txn.Set, Txn.Delete, Txn.Commit, Txn.Discard, Txn.NewIterator and the   *)
(* iterator's Rewind/Seek/Valid/Next/Item) are modelled at the call sites  *)
(* with the behaviour of badger/v4 in its default options                  *)
(* (DetectConflicts = true, unmanaged timestamps):                         *)
(*   - the oracle hands out readTs = nextTxnTs - 1 and commitTs =          *)
(*     nextTxnTs++;                                                        *)
(*   - a read at readTs returns the newest version with version <= readTs; *)
(*   - an update transaction serves reads from its pendingWrites first and *)
(*     otherwise records the key in txn.reads;                             *)
(*   - Commit fails with ErrConflict iff a key in txn.reads is in the      *)
(*     conflictKeys of a transaction committed with ts > readTs            *)
(*     (oracle.hasConflict); a Commit with no pending write only discards. *)
(* Key fingerprints (z.MemHash) are modelled as the keys themselves.       *)
(***************************************************************************)
EXTENDS Integers, Sequences, FiniteSets, TLC

VARIABLES
    orc,        \* badger oracle: nextTxnTs and the committedTxns list
    lsm,        \* badger LSM tree: the set of committed key versions
    handles,    \* the handles created so far, in creation order
    hist        \* history: what each handle's caller has done and was told

vars == <<orc, lsm, handles, hist>>

----------------------------------------------------------------------------
(* Bounds and input sets *)

\* The number of handles a run creates.
MaxHandles == 2

\* Keys are byte strings, modelled as sequences of byte values; <<>> is "".
EmptyKey == <<>>
\* The keys of the model, and the keys the callers of Spec pass.
Keys == {<<1>>, <<1, 1>>, <<2>>, <<3>>}
TxnKeys == {<<>>, <<1>>, <<2>>}
\* The range bounds the callers of Spec pass.
TxnBounds == {<<>>, <<2>>}
\* Values are byte strings; <<>> is the zero-length value.
Values == {<<>>, <<7>>}
\* A value stream that is nil (no reader at all), kept apart from every
\* byte string.
NilReader == <<-1>>

----------------------------------------------------------------------------
(* Byte-string order: Go's string comparison and badger's key comparison   *)
(* are both byte-lexicographic.                                            *)

RECURSIVE KeyLess(_, _)
KeyLess(a, b) ==
    IF b = <<>> THEN FALSE
    ELSE IF a = <<>> THEN TRUE
    ELSE IF Head(a) # Head(b) THEN Head(a) < Head(b)
    ELSE KeyLess(Tail(a), Tail(b))

KeyLeq(a, b) == a = b \/ KeyLess(a, b)

----------------------------------------------------------------------------
(* Errors *)

Nil == "nil"
ErrTxDone == "sql.ErrTxDone"
ErrNotExist == "os.ErrNotExist"
ErrInvalid == "os.ErrInvalid"
ErrKeyNotFound == "badger.ErrKeyNotFound"
ErrEmptyKey == "badger.ErrEmptyKey"
ErrDiscardedTxn == "badger.ErrDiscardedTxn"
ErrReadOnlyTxn == "badger.ErrReadOnlyTxn"
ErrConflict == "badger.ErrConflict"
Panic == "panic"

----------------------------------------------------------------------------
(* The engine: badger.Txn and the oracle, as used by the adapter *)

\* An entry of txn.pendingWrites; NoEntry when the key has none.
NoEntry == [has |-> FALSE, del |-> FALSE, val |-> <<>>]
SetEntry(v) == [has |-> TRUE, del |-> FALSE, val |-> v]
DelEntry == [has |-> TRUE, del |-> TRUE, val |-> <<>>]

\* db.NewTransaction(update), were the read timestamp one commit behind.
BadgerNewTransactionStale(o, update) ==
    [readTs |-> IF o.nextTxnTs > 1 THEN o.nextTxnTs - 2 ELSE 0,
     update |-> update,
     discarded |-> FALSE,
     pendingWrites |-> [k \in Keys |-> NoEntry],
     reads |-> {},
     conflictKeys |-> {},
     numIterators |-> 0]

\* db.NewTransaction(update): a transaction reading at the oracle's readTs.
BadgerNewTransaction(o, update) ==
    [readTs |-> o.nextTxnTs - 1,
     update |-> update,
     discarded |-> FALSE,
     pendingWrites |-> [k \in Keys |-> NoEntry],
     reads |-> {},
     conflictKeys |-> {},
     numIterators |-> 0]

\* The versions of key k a reader at ts can see.
VersionsAt(l, k, ts) == {r \in l : r.key = k /\ r.version <= ts}

\* db.get(KeyWithTs(k, ts)): the newest version of k with version <= ts,
\* as an entry (NoEntry when there is none).
LsmGet(l, k, ts) ==
    IF VersionsAt(l, k, ts) = {} THEN NoEntry
    ELSE LET r == CHOOSE x \in VersionsAt(l, k, ts) :
                      \A y \in VersionsAt(l, k, ts) : y.version <= x.version
         IN  [has |-> TRUE, del |-> r.del, val |-> r.val]

\* The entry a transaction reads for key k: an update transaction's own
\* pendingWrites first, then the LSM tree at readTs.
TxnLookup(l, tx, k) ==
    IF tx.update /\ tx.pendingWrites[k].has THEN tx.pendingWrites[k]
    ELSE LsmGet(l, k, tx.readTs)

\* Txn.addReadKey: only update transactions track reads.
AddReadKey(tx, k) ==
    IF tx.update THEN [tx EXCEPT !.reads = @ \cup {k}] ELSE tx

\* Txn.Get(key): [tx, err, val].
BadgerGet(l, tx, k) ==
    IF k = EmptyKey THEN [tx |-> tx, err |-> ErrEmptyKey, val |-> <<>>]
    ELSE IF tx.discarded THEN [tx |-> tx, err |-> ErrDiscardedTxn, val |-> <<>>]
    ELSE IF tx.update /\ tx.pendingWrites[k].has
    THEN IF tx.pendingWrites[k].del
         THEN [tx |-> tx, err |-> ErrKeyNotFound, val |-> <<>>]
         ELSE [tx |-> tx, err |-> Nil, val |-> tx.pendingWrites[k].val]
    ELSE LET e == LsmGet(l, k, tx.readTs)
             t2 == AddReadKey(tx, k)
         IN  IF ~e.has \/ e.del
             THEN [tx |-> t2, err |-> ErrKeyNotFound, val |-> <<>>]
             ELSE [tx |-> t2, err |-> Nil, val |-> e.val]

\* Txn.modify(entry), were it to lack the test for a read-only
\* transaction.
BadgerModifyAnyTxn(tx, k, e) ==
    IF tx.discarded THEN [tx |-> tx, err |-> ErrDiscardedTxn]
    ELSE IF k = EmptyKey THEN [tx |-> tx, err |-> ErrEmptyKey]
    ELSE [tx |-> [tx EXCEPT !.pendingWrites[k] = e,
                            !.conflictKeys = @ \cup {k}],
          err |-> Nil]

\* Txn.modify(entry), behind Txn.Set and Txn.Delete: [tx, err].
BadgerModify(tx, k, e) ==
    IF ~tx.update THEN [tx |-> tx, err |-> ErrReadOnlyTxn]
    ELSE IF tx.discarded THEN [tx |-> tx, err |-> ErrDiscardedTxn]
    ELSE IF k = EmptyKey THEN [tx |-> tx, err |-> ErrEmptyKey]
    ELSE [tx |-> [tx EXCEPT !.pendingWrites[k] = e,
                            !.conflictKeys = @ \cup {k}],
          err |-> Nil]

\* oracle.hasConflict, were it to skip the test of the commit timestamp
\* against the transaction's readTs.
HasConflictAnyTs(o, tx) ==
    \E i \in 1..Len(o.committedTxns) :
        o.committedTxns[i].conflictKeys \cap tx.reads # {}

\* oracle.hasConflict(txn).
HasConflict(o, tx) ==
    \E i \in 1..Len(o.committedTxns) :
        /\ o.committedTxns[i].ts > tx.readTs
        /\ o.committedTxns[i].conflictKeys \cap tx.reads # {}

\* The versions of a commit that writes only the first of its entries.
CommitVersionsFirst(tx, ts) ==
    LET ks == {x \in Keys : tx.pendingWrites[x].has}
        k == CHOOSE x \in ks : \A y \in ks : KeyLeq(x, y)
    IN  {[key |-> k, version |-> ts,
          del |-> tx.pendingWrites[k].del, val |-> tx.pendingWrites[k].val]}

\* The versions a commit at ts writes: one per pending entry.
CommitVersions(tx, ts) ==
    {[key |-> k, version |-> ts,
      del |-> tx.pendingWrites[k].del, val |-> tx.pendingWrites[k].val] :
        k \in {x \in Keys : tx.pendingWrites[x].has}}

\* Txn.Discard() panics when an iterator of the transaction is still open.
UnclosedIterator(tx) == ~tx.discarded /\ tx.numIterators > 0

\* Txn.Discard().
BadgerDiscard(tx) ==
    IF UnclosedIterator(tx) THEN tx ELSE [tx EXCEPT !.discarded = TRUE]

\* Txn.Commit(): [o, l, tx, err].
BadgerCommit(o, l, tx) ==
    IF \A k \in Keys : ~tx.pendingWrites[k].has
    THEN [o |-> o, l |-> l, tx |-> BadgerDiscard(tx),
          err |-> IF UnclosedIterator(tx) THEN Panic ELSE Nil]
    ELSE IF tx.discarded
    THEN [o |-> o, l |-> l, tx |-> tx, err |-> "badger.commitDiscarded"]
    ELSE IF HasConflict(o, tx)
    THEN [o |-> o, l |-> l, tx |-> BadgerDiscard(tx),
          err |-> IF UnclosedIterator(tx) THEN Panic ELSE ErrConflict]
    ELSE [o |-> [nextTxnTs |-> o.nextTxnTs + 1,
                 committedTxns |-> Append(o.committedTxns,
                     [ts |-> o.nextTxnTs, conflictKeys |-> tx.conflictKeys])],
          l |-> l \cup CommitVersions(tx, o.nextTxnTs),
          tx |-> BadgerDiscard(tx),
          err |-> IF UnclosedIterator(tx) THEN Panic ELSE Nil]

----------------------------------------------------------------------------
(* The engine's iterator: Txn.NewIterator and Rewind/Seek/Valid/Next/Item *)

\* The keys of an iterator that would leave pendingWrites out of the merge.
IterKeysNoPending(l, tx) ==
    {k \in Keys : LsmGet(l, k, tx.readTs).has /\ ~LsmGet(l, k, tx.readTs).del}

\* The keys an iterator of the transaction visits: those whose entry
\* (pendingWrites merged over the LSM tree at readTs) is not a deletion.
IterKeys(l, tx) ==
    {k \in Keys : TxnLookup(l, tx, k).has /\ ~TxnLookup(l, tx, k).del}

\* The keys of S in the iterator's order: ascending, or descending when
\* opts.Reverse is set.
RECURSIVE SortKeys(_, _)
SortKeys(S, reverse) ==
    IF S = {} THEN <<>>
    ELSE LET first == CHOOSE k \in S : \A x \in S :
                          IF reverse THEN KeyLeq(x, k) ELSE KeyLeq(k, x)
         IN  <<first>> \o SortKeys(S \ {first}, reverse)

\* Txn.NewIterator(opts) counts the iterator among the transaction's open
\* iterators, and Iterator.Close() takes it off the count.
NewIterator(tx) == [tx EXCEPT !.numIterators = @ + 1]
IteratorClose(tx) == [tx EXCEPT !.numIterators = @ - 1]

\* it.Rewind(): the first position.
Rewind == 1

\* it.Seek(key): the first position at or after key in the iterator's
\* direction (one past the end when there is none).
Seek(items, key, reverse) ==
    LET ok == {i \in 1..Len(items) :
                  IF reverse THEN KeyLeq(items[i], key)
                  ELSE KeyLeq(key, items[i])}
    IN  IF ok = {} THEN Len(items) + 1
        ELSE CHOOSE i \in ok : \A j \in ok : i <= j

\* The handle after it.Seek(key): Seek records a non-empty key among the
\* reads of an update transaction.
Sought(t, key) ==
    IF key # EmptyKey THEN [t EXCEPT !.tx = AddReadKey(t.tx, key)] ELSE t

\* it.Valid().
Valid(items, pos) == pos <= Len(items)

\* item.ValueCopy(nil) of the item at key k.
ValueCopy(l, tx, k) == TxnLookup(l, tx, k).val

\* The error of an item.ValueCopy(nil) that cannot read the value.
ErrValueRead == "badger.valueReadError"
\* The sets of keys whose value the engine fails to read during one pass.
Faults == {{}, {<<2>>}}

----------------------------------------------------------------------------
(* The adapter: src/badger.go *)

\* Database.NewTransaction: a read-write handle.
NewTransactionHandle(o) ==
    [kind |-> "Transaction", db |-> TRUE, tx |-> BadgerNewTransaction(o, TRUE)]

\* Database.NewSnapshot: a read-only handle.
NewSnapshotHandle(o) ==
    [kind |-> "Snapshot", db |-> TRUE, tx |-> BadgerNewTransaction(o, FALSE)]

\* txn.Commit, were it to leave t.db set.
txnCommitKeepsDb(o, l, t) ==
    IF ~t.db THEN [o |-> o, l |-> l, t |-> t, err |-> ErrTxDone]
    ELSE LET r == BadgerCommit(o, l, t.tx)
         IN  [o |-> r.o, l |-> r.l, t |-> [t EXCEPT !.tx = r.tx], err |-> r.err]

\* txn.Commit, were it to drop the error of the engine's Commit.
txnCommitDropsError(o, l, t) ==
    IF ~t.db THEN [o |-> o, l |-> l, t |-> t, err |-> ErrTxDone]
    ELSE LET r == BadgerCommit(o, l, t.tx)
         IN  [o |-> r.o, l |-> r.l,
              t |-> [t EXCEPT !.db = FALSE, !.tx = r.tx],
              err |-> Nil]

\* txn.Commit: [o, l, t, err].
txnCommit(o, l, t) ==
    IF ~t.db THEN [o |-> o, l |-> l, t |-> t, err |-> ErrTxDone]
    ELSE LET r == BadgerCommit(o, l, t.tx)
         IN  [o |-> r.o, l |-> r.l,
              t |-> [t EXCEPT !.db = FALSE, !.tx = r.tx],
              err |-> r.err]

\* txn.discard, were it to end the engine's transaction with Commit.
txnDiscardCommits(o, l, t) ==
    IF ~t.db THEN [o |-> o, l |-> l, t |-> t, err |-> ErrTxDone]
    ELSE LET r == BadgerCommit(o, l, t.tx)
         IN  [o |-> r.o, l |-> r.l,
              t |-> [t EXCEPT !.db = FALSE, !.tx = r.tx],
              err |-> Nil]

\* txn.discard, behind Transaction.Rollback and Snapshot.Discard:
\* [o, l, t, err]; the oracle and the LSM tree are passed through.
txnDiscard(o, l, t) ==
    IF ~t.db THEN [o |-> o, l |-> l, t |-> t, err |-> ErrTxDone]
    ELSE [o |-> o, l |-> l,
          t |-> [t EXCEPT !.db = FALSE, !.tx = BadgerDiscard(t.tx)],
          err |-> IF UnclosedIterator(t.tx) THEN Panic ELSE Nil]

\* txn.Get, were it to read through a transaction opened at the time of the
\* call instead of the handle's own.
txnGetLatest(l, t, k) ==
    LET newest == CHOOSE n \in {0} \cup {r.version : r \in l} :
                      \A r \in l : r.version <= n
        r == BadgerGet(l, [t.tx EXCEPT !.readTs = newest], k)
    IN  [t |-> t,
         err |-> IF r.err = ErrKeyNotFound THEN ErrNotExist ELSE r.err,
         val |-> r.val]

\* txn.Get, were the buffered writes kept in the Database and shared by
\* its handles.
txnGetShared(l, t, k) ==
    LET r == BadgerGet(l, t.tx, k)
        others == {g \in 1..Len(handles) :
                      /\ k \in Keys /\ handles[g].tx.pendingWrites[k].has
                      /\ ~handles[g].tx.pendingWrites[k].del}
    IN  IF t.tx.discarded \/ others = {}
        THEN [t |-> [t EXCEPT !.tx = r.tx],
              err |-> IF r.err = ErrKeyNotFound THEN ErrNotExist ELSE r.err,
              val |-> r.val]
        ELSE [t |-> t, err |-> Nil,
              val |-> handles[CHOOSE g \in others : TRUE].tx.pendingWrites[k].val]

\* txn.Get: [t, err, val].
txnGet(l, t, k) ==
    LET r == BadgerGet(l, t.tx, k)
    IN  [t |-> [t EXCEPT !.tx = r.tx],
         err |-> IF r.err = ErrKeyNotFound THEN ErrNotExist ELSE r.err,
         val |-> r.val]

\* txn.Set, were it to turn a zero-length value into a removal.
txnSetEmptyDeletes(t, k, v) ==
    IF ~t.db THEN [t |-> t, err |-> ErrTxDone]
    ELSE IF v = NilReader THEN [t |-> t, err |-> Panic]
    ELSE LET r == BadgerModify(t.tx, k, IF v = <<>> THEN DelEntry ELSE SetEntry(v))
         IN  [t |-> [t EXCEPT !.tx = r.tx], err |-> r.err]

\* txn.Set: [t, err].  io.ReadAll(v) calls v.Read, which panics with a nil
\* pointer dereference when v is nil.
txnSet(t, k, v) ==
    IF ~t.db THEN [t |-> t, err |-> ErrTxDone]
    ELSE IF v = NilReader THEN [t |-> t, err |-> Panic]
    ELSE LET r == BadgerModify(t.tx, k, SetEntry(v))
         IN  [t |-> [t EXCEPT !.tx = r.tx], err |-> r.err]

\* txn.Delete, were it to drop the key's buffered entry instead of
\* buffering a removal.
txnDeleteUnbuffers(t, k) ==
    IF ~t.db THEN [t |-> t, err |-> ErrTxDone]
    ELSE LET r == BadgerModify(t.tx, k, NoEntry)
         IN  [t |-> [t EXCEPT !.tx = r.tx],
              err |-> IF r.err = ErrKeyNotFound THEN ErrNotExist ELSE r.err]

\* txn.Delete: [t, err].
txnDelete(t, k) ==
    IF ~t.db THEN [t |-> t, err |-> ErrTxDone]
    ELSE LET r == BadgerModify(t.tx, k, DelEntry)
         IN  [t |-> [t EXCEPT !.tx = r.tx],
              err |-> IF r.err = ErrKeyNotFound THEN ErrNotExist ELSE r.err]

----------------------------------------------------------------------------
(* The adapter's range iteration.  A pass is the whole run of the function *)
(* the adapter returns: stopAt is the number of pairs after which the      *)
(* consumer's yield returns false (0: the consumer never stops), and bad   *)
(* the keys whose value the engine fails to read.  A loop returns          *)
(* [t, out, err, exit]: the handle, the pairs yielded, the value left in   *)
(* *errp (Nil when the pass does not write it) and the way the loop was    *)
(* left; a pass returns these and closes, the number of it.Close() calls.  *)

\* One turn of a loop from the call of item.ValueCopy on: the value cannot
\* be read, or the pair is yielded and the consumer stops or goes on.
LoopExit(t, out, err, exit) == [t |-> t, out |-> out, err |-> err, exit |-> exit]

\* The loop of txn.Ascend, were it to stop only past the end bound
\* (key > end in place of key >= end).
RECURSIVE AscendLoopPastEnd(_, _, _, _, _, _, _, _)
AscendLoopPastEnd(l, t, items, pos, end, stopAt, bad, out) ==
    IF ~Valid(items, pos) THEN LoopExit(t, out, Nil, "exhausted")
    ELSE LET key == items[pos]
             t2 == [t EXCEPT !.tx = AddReadKey(t.tx, key)]
             out2 == Append(out, <<key, ValueCopy(l, t.tx, key)>>)
         IN  IF end # EmptyKey /\ KeyLess(end, key)
             THEN LoopExit(t2, out, Nil, "bound")
             ELSE IF key \in bad THEN LoopExit(t2, out, ErrValueRead, "error")
             ELSE IF Len(out2) = stopAt THEN LoopExit(t2, out2, Nil, "stopped")
             ELSE AscendLoopPastEnd(l, t2, items, pos + 1, end, stopAt, bad, out2)

\* The loop of txn.Scan and txn.Ascend, were it to yield the pair of a
\* value it could not read before it returns.
RECURSIVE AscendLoopYieldsFailed(_, _, _, _, _, _, _, _)
AscendLoopYieldsFailed(l, t, items, pos, end, stopAt, bad, out) ==
    IF ~Valid(items, pos) THEN LoopExit(t, out, Nil, "exhausted")
    ELSE LET key == items[pos]
             t2 == [t EXCEPT !.tx = AddReadKey(t.tx, key)]
             out2 == Append(out, <<key, ValueCopy(l, t.tx, key)>>)
         IN  IF end # EmptyKey /\ KeyLeq(end, key)
             THEN LoopExit(t2, out, Nil, "bound")
             ELSE IF key \in bad THEN LoopExit(t2, out2, ErrValueRead, "error")
             ELSE IF Len(out2) = stopAt THEN LoopExit(t2, out2, Nil, "stopped")
             ELSE AscendLoopYieldsFailed(l, t2, items, pos + 1, end, stopAt, bad, out2)

\* The loop of txn.Scan and txn.Ascend from position pos.
RECURSIVE AscendLoop(_, _, _, _, _, _, _, _)
AscendLoop(l, t, items, pos, end, stopAt, bad, out) ==
    IF ~Valid(items, pos) THEN LoopExit(t, out, Nil, "exhausted")
    ELSE LET key == items[pos]
             t2 == [t EXCEPT !.tx = AddReadKey(t.tx, key)]
             out2 == Append(out, <<key, ValueCopy(l, t.tx, key)>>)
         IN  IF end # EmptyKey /\ KeyLeq(end, key)
             THEN LoopExit(t2, out, Nil, "bound")
             ELSE IF key \in bad THEN LoopExit(t2, out, ErrValueRead, "error")
             ELSE IF Len(out2) = stopAt THEN LoopExit(t2, out2, Nil, "stopped")
             ELSE AscendLoop(l, t2, items, pos + 1, end, stopAt, bad, out2)

\* The loop of txn.Descend, were it to lack the test that skips a key equal
\* to end.
RECURSIVE DescendLoopKeepsEnd(_, _, _, _, _, _, _, _, _)
DescendLoopKeepsEnd(l, t, items, pos, beg, end, stopAt, bad, out) ==
    IF ~Valid(items, pos) THEN LoopExit(t, out, Nil, "exhausted")
    ELSE LET key == items[pos]
             t2 == [t EXCEPT !.tx = AddReadKey(t.tx, key)]
             out2 == Append(out, <<key, ValueCopy(l, t.tx, key)>>)
         IN  IF beg # EmptyKey /\ KeyLess(key, beg)
             THEN LoopExit(t2, out, Nil, "bound")
             ELSE IF key \in bad THEN LoopExit(t2, out, ErrValueRead, "error")
             ELSE IF Len(out2) = stopAt THEN LoopExit(t2, out2, Nil, "stopped")
             ELSE DescendLoopKeepsEnd(l, t2, items, pos + 1, beg, end, stopAt,
                                      bad, out2)

\* The loop of txn.Descend from position pos.
RECURSIVE DescendLoop(_, _, _, _, _, _, _, _, _)
DescendLoop(l, t, items, pos, beg, end, stopAt, bad, out) ==
    IF ~Valid(items, pos) THEN LoopExit(t, out, Nil, "exhausted")
    ELSE LET key == items[pos]
             t2 == [t EXCEPT !.tx = AddReadKey(t.tx, key)]
             out2 == Append(out, <<key, ValueCopy(l, t.tx, key)>>)
         IN  IF end # EmptyKey /\ key = end
             THEN DescendLoop(l, t2, items, pos + 1, beg, end, stopAt, bad, out)
             ELSE IF beg # EmptyKey /\ KeyLess(key, beg)
             THEN LoopExit(t2, out, Nil, "bound")
             ELSE IF key \in bad THEN LoopExit(t2, out, ErrValueRead, "error")
             ELSE IF Len(out2) = stopAt THEN LoopExit(t2, out2, Nil, "stopped")
             ELSE DescendLoop(l, t2, items, pos + 1, beg, end, stopAt, bad, out2)

\* A pass that returns before it opens an iterator, or panics in
\* Txn.NewIterator: no it.Close() is deferred.
NoIterator(t, err, exit) ==
    [t |-> t, out |-> <<>>, err |-> err, exit |-> exit, closes |-> 0]

\* The handle once t.tx.NewIterator has returned.
Opened(t) == [t EXCEPT !.tx = NewIterator(t.tx)]

\* defer it.Close(): the loop result r, with it.Close() run once as the
\* function returns.
DeferClose(r) ==
    [t |-> [r.t EXCEPT !.tx = IteratorClose(r.t.tx)],
     out |-> r.out, err |-> r.err, exit |-> r.exit, closes |-> 1]

\* A pass that calls it.Close() after its loop, only when the loop ran to
\* its end, instead of deferring it.
CloseAtEnd(r) ==
    IF r.exit \in {"exhausted", "bound"} THEN DeferClose(r)
    ELSE [t |-> r.t, out |-> r.out, err |-> r.err, exit |-> r.exit, closes |-> 0]

\* txn.Scan, were it.Close() called after the loop instead of deferred.
txnScanClosesAtEnd(l, t, stopAt, bad) ==
    IF t.tx.discarded THEN NoIterator(t, Panic, "panic")
    ELSE CloseAtEnd(AscendLoop(l, Opened(t), SortKeys(IterKeys(l, t.tx), FALSE),
                               Rewind, EmptyKey, stopAt, bad, <<>>))

\* txn.Scan.  Txn.NewIterator panics on a discarded transaction.
txnScan(l, t, stopAt, bad) ==
    IF t.tx.discarded THEN NoIterator(t, Panic, "panic")
    ELSE DeferClose(AscendLoop(l, Opened(t), SortKeys(IterKeys(l, t.tx), FALSE),
                               Rewind, EmptyKey, stopAt, bad, <<>>))

\* txn.Ascend, were its test of the bounds beg > end alone.
txnAscendRejectsOpenEnd(l, t, beg, end, stopAt, bad) ==
    IF KeyLess(end, beg) THEN NoIterator(t, ErrInvalid, "invalid")
    ELSE IF t.tx.discarded THEN NoIterator(t, Panic, "panic")
    ELSE LET items == SortKeys(IterKeys(l, t.tx), FALSE)
             pos == IF beg # EmptyKey THEN Seek(items, beg, FALSE) ELSE Rewind
         IN  DeferClose(AscendLoop(l, Sought(Opened(t), beg), items, pos, end,
                                   stopAt, bad, <<>>))

\* txn.Ascend.
txnAscend(l, t, beg, end, stopAt, bad) ==
    IF KeyLess(end, beg) /\ end # EmptyKey THEN NoIterator(t, ErrInvalid, "invalid")
    ELSE IF t.tx.discarded THEN NoIterator(t, Panic, "panic")
    ELSE LET items == SortKeys(IterKeys(l, t.tx), FALSE)
             pos == IF beg # EmptyKey THEN Seek(items, beg, FALSE) ELSE Rewind
         IN  DeferClose(AscendLoop(l, Sought(Opened(t), beg), items, pos, end,
                                   stopAt, bad, <<>>))

\* txn.Descend.
txnDescend(l, t, beg, end, stopAt, bad) ==
    IF KeyLess(end, beg) /\ end # EmptyKey THEN NoIterator(t, ErrInvalid, "invalid")
    ELSE IF t.tx.discarded THEN NoIterator(t, Panic, "panic")
    ELSE LET items == SortKeys(IterKeys(l, t.tx), TRUE)
             pos == IF end # EmptyKey THEN Seek(items, end, TRUE) ELSE Rewind
         IN  DeferClose(DescendLoop(l, Sought(Opened(t), end), items, pos, beg,
                                    end, stopAt, bad, <<>>))

----------------------------------------------------------------------------
(* History kept beside the program state, from the callers' side: the      *)
(* committed contents as a flat map, the batches committed in order, and   *)
(* per handle the contents and the number of commits at its creation, the  *)
(* Sets and Deletes that returned no error, its first terminal call, and   *)
(* the position of its batch among the commits (0: none).                  *)

NoWrites == [k \in Keys |-> NoEntry]

\* The batch w laid over the contents base.
Overlay(base, w) == [k \in Keys |-> IF w[k].has THEN w[k] ELSE base[k]]

NewHistory ==
    [frozen |-> hist.committed, born |-> Len(hist.log), wrote |-> NoWrites,
     term |-> "none", termErr |-> Nil, seq |-> 0]

\* The history after a terminal call op on handle h returned err.
Terminal(h, op, err) ==
    IF hist.h[h].term # "none" THEN hist
    ELSE IF op = "Commit" /\ err = Nil /\ hist.h[h].wrote # NoWrites
    THEN [committed |-> Overlay(hist.committed, hist.h[h].wrote),
          log |-> Append(hist.log, hist.h[h].wrote),
          h |-> [hist.h EXCEPT ![h].term = op, ![h].termErr = err,
                               ![h].seq = Len(hist.log) + 1]]
    ELSE [hist EXCEPT !.h[h].term = op, !.h[h].termErr = err]

\* The history after a Set or Delete of k on handle h returned err.
Wrote(h, k, e, err) ==
    IF err = Nil THEN [hist EXCEPT !.h[h].wrote[k] = e] ELSE hist

\* The numbers of pairs after which a consumer stops a pass (0: never).
StopAts == {0, 1}

----------------------------------------------------------------------------
(* Actions: one per exported operation of the adapter *)

\* The contents of the database handed to New: empty, or one key written
\* by an earlier run of the program.
Preloads == {NoWrites, [NoWrites EXCEPT ![<<1>>] = SetEntry(<<7>>)]}

\* New(db) over a database holding the batch w: badger.Open leaves the
\* oracle at the newest version plus one, with no committed transaction
\* in memory.
InitWith(w) ==
    /\ orc = [nextTxnTs |-> IF w = NoWrites THEN 1 ELSE 2,
              committedTxns |-> <<>>]
    /\ lsm = {[key |-> k, version |-> 1, del |-> FALSE, val |-> w[k].val] :
                  k \in {x \in Keys : w[x].has}}
    /\ handles = <<>>
    /\ hist = [committed |-> w,
               log |-> IF w = NoWrites THEN <<>> ELSE <<w>>,
               h |-> <<>>]

Init == \E w \in Preloads : InitWith(w)

NewTransaction ==
    /\ Len(handles) < MaxHandles
    /\ handles' = Append(handles, NewTransactionHandle(orc))
    /\ hist' = [hist EXCEPT !.h = Append(@, NewHistory)]
    /\ UNCHANGED <<orc, lsm>>

NewSnapshot ==
    /\ Len(handles) < MaxHandles
    /\ handles' = Append(handles, NewSnapshotHandle(orc))
    /\ hist' = [hist EXCEPT !.h = Append(@, NewHistory)]
    /\ UNCHANGED <<orc, lsm>>

Commit(h) ==
    LET r == txnCommit(orc, lsm, handles[h])
    IN  /\ orc' = r.o
        /\ lsm' = r.l
        /\ handles' = [handles EXCEPT ![h] = r.t]
        /\ hist' = Terminal(h, "Commit", r.err)

Rollback(h) ==
    LET r == txnDiscard(orc, lsm, handles[h])
    IN  /\ handles[h].kind = "Transaction"
        /\ orc' = r.o
        /\ lsm' = r.l
        /\ handles' = [handles EXCEPT ![h] = r.t]
        /\ hist' = Terminal(h, "Rollback", r.err)

Discard(h) ==
    LET r == txnDiscard(orc, lsm, handles[h])
    IN  /\ handles[h].kind = "Snapshot"
        /\ orc' = r.o
        /\ lsm' = r.l
        /\ handles' = [handles EXCEPT ![h] = r.t]
        /\ hist' = Terminal(h, "Discard", r.err)

Get(h, k) ==
    LET r == txnGet(lsm, handles[h], k)
    IN  /\ handles' = [handles EXCEPT ![h] = r.t]
        /\ UNCHANGED <<orc, lsm, hist>>

Set(h, k, v) ==
    LET r == txnSet(handles[h], k, v)
    IN  /\ handles' = [handles EXCEPT ![h] = r.t]
        /\ hist' = Wrote(h, k, SetEntry(v), r.err)
        /\ UNCHANGED <<orc, lsm>>

Delete(h, k) ==
    LET r == txnDelete(handles[h], k)
    IN  /\ handles' = [handles EXCEPT ![h] = r.t]
        /\ hist' = Wrote(h, k, DelEntry, r.err)
        /\ UNCHANGED <<orc, lsm>>

Scan(h, stopAt, bad) ==
    LET r == txnScan(lsm, handles[h], stopAt, bad)
    IN  /\ handles' = [handles EXCEPT ![h] = r.t]
        /\ UNCHANGED <<orc, lsm, hist>>

Ascend(h, beg, end, stopAt, bad) ==
    LET r == txnAscend(lsm, handles[h], beg, end, stopAt, bad)
    IN  /\ handles' = [handles EXCEPT ![h] = r.t]
        /\ UNCHANGED <<orc, lsm, hist>>

Descend(h, beg, end, stopAt, bad) ==
    LET r == txnDescend(lsm, handles[h], beg, end, stopAt, bad)
    IN  /\ handles' = [handles EXCEPT ![h] = r.t]
        /\ UNCHANGED <<orc, lsm, hist>>

H == 1..Len(handles)

Next ==
    \/ NewTransaction
    \/ NewSnapshot
    \/ \E h \in H : Commit(h)
    \/ \E h \in H : Rollback(h)
    \/ \E h \in H : Discard(h)
    \/ \E h \in H, k \in TxnKeys : Get(h, k)
    \/ \E h \in H, k \in TxnKeys, v \in Values \cup {NilReader} : Set(h, k, v)
    \/ \E h \in H, k \in TxnKeys : Delete(h, k)
    \/ \E h \in H, n \in StopAts, bad \in Faults : Scan(h, n, bad)
    \/ \E h \in H, b \in TxnBounds, e \in TxnBounds : Ascend(h, b, e, 0, {})
    \/ \E h \in H, b \in TxnBounds, e \in TxnBounds : Descend(h, b, e, 0, {})

Spec == Init /\ [][Next]_vars

----------------------------------------------------------------------------
(* Range iteration over larger contents: the database handed to New holds  *)
(* any subset of Keys, each key with its own bytes as value, and one       *)
(* handle works on it.                                                     *)

RangePreloads ==
    {[k \in Keys |-> IF k \in S THEN SetEntry(k) ELSE NoEntry] :
        S \in SUBSET Keys}

\* The bounds passed to Ascend and Descend: no bound, every key, and a
\* byte string between two keys that is never stored.
Bounds == Keys \cup {EmptyKey, <<1, 2>>}
\* The bounds of the passes that the runs of SpecRange make.
RunBounds == {EmptyKey, <<1, 1>>, <<3>>}

InitRange == \E w \in RangePreloads : InitWith(w)

NextRange ==
    \/ handles = <<>> /\ NewTransaction
    \/ handles = <<>> /\ NewSnapshot
    \/ \E h \in H : Commit(h)
    \/ \E h \in H : Rollback(h)
    \/ \E h \in H : Discard(h)
    \/ \E h \in H, k \in Keys : Set(h, k, <<9>>)
    \/ \E h \in H, k \in Keys : Delete(h, k)
    \/ \E h \in H, n \in StopAts, bad \in Faults : Scan(h, n, bad)
    \/ \E h \in H, b \in RunBounds, e \in RunBounds, n \in StopAts,
          bad \in Faults : Ascend(h, b, e, n, bad)
    \/ \E h \in H, b \in RunBounds, e \in RunBounds, n \in StopAts,
          bad \in Faults : Descend(h, b, e, n, bad)

SpecRange == InitRange /\ [][NextRange]_vars

----------------------------------------------------------------------------
(* What callers observe *)

\* The result of a Get that finds entry e: its value, or NotFound.
Found(e) ==
    IF e.has /\ ~e.del THEN [err |-> Nil, val |-> e.val]
    ELSE [err |-> ErrNotExist, val |-> <<>>]

\* The result of Get(k) on handle t over the LSM tree l.
GetResult(l, t, k) ==
    LET r == txnGet(l, t, k) IN [err |-> r.err, val |-> r.val]

\* What the caller of a pass is left with: the handle, the pairs and the
\* error slot.
PassResult(r) == [t |-> r.t, out |-> r.out, err |-> r.err]

\* Everything handle t can observe: Get of every key, and a full Scan.
Observed(l, t) ==
    LET r == txnScan(l, t, 0, {})
    IN  [get |-> [k \in Keys |-> GetResult(l, t, k)],
         scan |-> [out |-> r.out, err |-> r.err]]

\* What a handle opened now would observe.
FreshObserved == Observed(lsm, NewSnapshotHandle(orc))

Active(h) == hist.h[h].term = "none"
Committed(h) == hist.h[h].term = "Commit" /\ hist.h[h].termErr = Nil
WroteKeys(h) == {k \in Keys : hist.h[h].wrote[k].has}

\* Handle g committed a batch while handle h was open.
CommittedDuring(g, h) ==
    /\ hist.h[g].seq > hist.h[h].born
    /\ (hist.h[h].seq = 0 \/ hist.h[g].seq < hist.h[h].seq)

----------------------------------------------------------------------------
(* C1: a Get on an active Snapshot returns, for every key, the value (or   *)
(* NotFound) committed when the Snapshot was created, whatever has been    *)
(* committed since.                                                        *)
SnapshotFrozenAtCreation ==
    \A h \in H :
        handles[h].kind = "Snapshot" /\ Active(h) =>
            \A k \in Keys :
                GetResult(lsm, handles[h], k) = Found(hist.h[h].frozen[k])

\* An active Snapshot reads the old value of a key that a later commit
\* replaced or removed.
SnapshotFrozenWitness ==
    \E h \in H, k \in Keys :
        /\ handles[h].kind = "Snapshot" /\ Active(h)
        /\ hist.h[h].frozen[k].has
        /\ Found(hist.committed[k]) # Found(hist.h[h].frozen[k])
        /\ GetResult(lsm, handles[h], k) = Found(hist.h[h].frozen[k])

----------------------------------------------------------------------------
(* C2: while a Transaction that has accepted a Set or Delete of a key is   *)
(* still active, every other handle observes for that key, through Get and *)
(* through iteration, only the contents committed at its own creation and  *)
(* its own buffered writes, and a handle opened now finds the committed    *)
(* contents.                                                               *)

\* The contents handle g is to observe: those committed at its creation,
\* under its own accepted Sets and Deletes.
OwnView(g) == Overlay(hist.h[g].frozen, hist.h[g].wrote)

\* The pairs of a pass whose key is k.
PairsOf(out, k) == {out[i] : i \in {j \in 1..Len(out) : out[j][1] = k}}

\* What a Get of k and a full Scan show of k when the entry of k is e.
Shows(obs, k, e) ==
    /\ obs.get[k] = Found(e)
    /\ obs.scan.err = Nil
    /\ PairsOf(obs.scan.out, k) =
           IF e.has /\ ~e.del THEN {<<k, e.val>>} ELSE {}

BufferedWritesInvisible ==
    \A h \in H : \A k \in WroteKeys(h) :
        handles[h].kind = "Transaction" /\ Active(h) =>
            /\ Shows(FreshObserved, k, hist.committed[k])
            /\ \A g \in H \ {h} :
                   Active(g) => Shows(Observed(lsm, handles[g]), k, OwnView(g)[k])

\* A Transaction holds a buffered Set of a key, it is still active and
\* reads the key back, and another open handle and a new handle both still
\* find the key absent.
BufferedWritesWitness ==
    \E h \in H, g \in H, k \in Keys :
        /\ g # h /\ Active(h) /\ Active(g)
        /\ hist.h[h].wrote[k].has /\ ~hist.h[h].wrote[k].del
        /\ GetResult(lsm, handles[h], k).err = Nil
        /\ GetResult(lsm, handles[g], k).err = ErrNotExist
        /\ FreshObserved.get[k].err = ErrNotExist
        /\ PairsOf(Observed(lsm, handles[g]).scan.out, k) = {}

----------------------------------------------------------------------------
----------------------------------------------------------------------------
(* C4: when no Transaction that committed while the open Transaction h was *)
(* open wrote a key that h has written or read, Commit on h succeeds, and  *)
(* a handle opened afterwards finds the writes of h over everything        *)
(* committed before.                                                       *)
DisjointCommitsSucceed ==
    \A h \in H :
        /\ handles[h].kind = "Transaction" /\ Active(h)
        /\ \A g \in H :
               Committed(g) /\ CommittedDuring(g, h) =>
                   WroteKeys(g) \cap (WroteKeys(h) \cup handles[h].tx.reads) = {}
        => LET r == txnCommit(orc, lsm, handles[h])
           IN  /\ r.err = Nil
               /\ \A k \in Keys :
                      GetResult(r.l, NewSnapshotHandle(r.o), k) =
                          Found(Overlay(hist.committed, hist.h[h].wrote)[k])

\* Two Transactions that were open together and wrote different keys have
\* both committed, and a new handle finds the writes of both.
DisjointCommitsWitness ==
    \E h \in H, g \in H :
        /\ Committed(h) /\ Committed(g)
        /\ hist.h[g].seq > hist.h[h].born /\ hist.h[h].seq > hist.h[g].seq
        /\ hist.h[h].born = hist.h[g].born
        /\ WroteKeys(h) # {} /\ WroteKeys(g) # {}
        /\ WroteKeys(h) \cap WroteKeys(g) = {}
        /\ \A k \in WroteKeys(h) : FreshObserved.get[k] = Found(hist.h[h].wrote[k])
        /\ \A k \in WroteKeys(g) : FreshObserved.get[k] = Found(hist.h[g].wrote[k])

----------------------------------------------------------------------------
(* C5: Commit is all-or-nothing: at every timestamp a handle can read at,  *)
(* the LSM tree holds exactly the whole batches of the Transactions whose  *)
(* Commit succeeded up to then, applied in commit order, and nothing of a  *)
(* Transaction that is active, was rolled back or was refused.             *)

\* The first n batches applied in order to the empty contents.
RECURSIVE Replay(_)
Replay(n) == IF n = 0 THEN NoWrites ELSE Overlay(Replay(n - 1), hist.log[n])

CommitAllOrNothing ==
    /\ orc.nextTxnTs = Len(hist.log) + 1
    /\ \A ts \in 0..Len(hist.log) : \A k \in Keys :
           Found(LsmGet(lsm, k, ts)) = Found(Replay(ts)[k])
    /\ \A h \in H :
           /\ hist.h[h].seq # 0 => Committed(h) /\ hist.log[hist.h[h].seq] = hist.h[h].wrote
           /\ ~Committed(h) => hist.h[h].seq = 0
           /\ handles[h].tx.readTs <= Len(hist.log)

\* One Transaction has committed a batch of two keys and a new handle finds
\* both, while another that wrote the same keys was refused and left no
\* trace.
CommitAllOrNothingWitness ==
    \E h \in H, g \in H :
        /\ Committed(h) /\ Cardinality(WroteKeys(h)) = 2
        /\ hist.h[g].termErr = ErrConflict /\ WroteKeys(g) = WroteKeys(h)
        /\ \A k \in WroteKeys(h) :
               /\ hist.h[g].wrote[k] # hist.h[h].wrote[k]
               /\ FreshObserved.get[k] = Found(hist.h[h].wrote[k])

----------------------------------------------------------------------------
(* C6: on an active Transaction, a Get of a key whose last accepted        *)
(* mutation on that Transaction is Set(k, v) returns exactly v, the        *)
(* zero-length value included, whatever other transactions have committed. *)
SetThenGet ==
    \A h \in H : \A k \in WroteKeys(h) :
        handles[h].kind = "Transaction" /\ Active(h) /\ ~hist.h[h].wrote[k].del
        => GetResult(lsm, handles[h], k) =
               [err |-> Nil, val |-> hist.h[h].wrote[k].val]

\* An active Transaction has Set a key to the zero-length value and reads
\* it back, after another Transaction committed a different value for it.
SetThenGetWitness ==
    \E h \in H, g \in H, k \in Keys :
        /\ handles[h].kind = "Transaction" /\ Active(h)
        /\ hist.h[h].wrote[k] = SetEntry(<<>>)
        /\ Committed(g) /\ CommittedDuring(g, h)
        /\ hist.h[g].wrote[k].has /\ hist.h[g].wrote[k] # hist.h[h].wrote[k]
        /\ GetResult(lsm, handles[h], k) = [err |-> Nil, val |-> <<>>]

----------------------------------------------------------------------------
(* C7: the Rollback of a Transaction leaves the committed store as it was, *)
(* and from then on no other handle and no handle opened later observes    *)
(* any of the Sets and Deletes the Transaction had buffered.               *)
RollbackPublishesNothing ==
    /\ [](\A h \in H : \A k \in WroteKeys(h) :
            hist.h[h].term = "Rollback" =>
                /\ Shows(FreshObserved, k, hist.committed[k])
                /\ \A g \in H \ {h} :
                       Active(g) =>
                           Shows(Observed(lsm, handles[g]), k, OwnView(g)[k]))
    /\ [][\A h \in H :
            hist.h[h].term = "none" /\ hist'.h[h].term = "Rollback" =>
                lsm' = lsm /\ orc' = orc /\ hist'.committed = hist.committed
         ]_vars

\* A Transaction that had buffered a Set was rolled back, and a new handle
\* does not find the value it had Set.
RollbackWitness ==
    \E h \in H, k \in Keys :
        /\ hist.h[h].term = "Rollback" /\ hist.h[h].termErr = Nil
        /\ hist.h[h].wrote[k].has /\ ~hist.h[h].wrote[k].del
        /\ FreshObserved.get[k] # Found(hist.h[h].wrote[k])
        /\ FreshObserved.get[k] = Found(hist.committed[k])

----------------------------------------------------------------------------
(* C8: once Commit, Rollback or Discard has returned on a handle, every    *)
(* later Commit, Rollback or Discard on it returns Done and changes        *)
(* neither the handle nor the committed store.                             *)
OneTerminalCall ==
    \A h \in H :
        ~Active(h) =>
            /\ txnCommit(orc, lsm, handles[h]) =
                   [o |-> orc, l |-> lsm, t |-> handles[h], err |-> ErrTxDone]
            /\ txnDiscard(orc, lsm, handles[h]) =
                   [o |-> orc, l |-> lsm, t |-> handles[h], err |-> ErrTxDone]

\* A rolled-back Transaction with buffered writes is committed again and
\* a committed one is rolled back again: both calls report Done.
OneTerminalCallWitness ==
    \E h \in H, g \in H :
        /\ hist.h[h].term = "Rollback" /\ WroteKeys(h) # {}
        /\ txnCommit(orc, lsm, handles[h]).err = ErrTxDone
        /\ Committed(g) /\ hist.h[g].seq # 0
        /\ txnDiscard(orc, lsm, handles[g]).err = ErrTxDone

----------------------------------------------------------------------------
(* C9: on a handle that has committed, rolled back or been discarded,      *)
(* every Get, Set, Delete, Scan, Ascend and Descend fails with Done (the   *)
(* passes through the error slot, yielding no pair) and changes nothing.   *)
DoneHandleReportsDone ==
    \A h \in H :
        ~Active(h) =>
            /\ \A k \in Keys :
                   /\ txnGet(lsm, handles[h], k).err = ErrTxDone
                   /\ txnGet(lsm, handles[h], k).t = handles[h]
                   /\ txnDelete(handles[h], k) =
                          [t |-> handles[h], err |-> ErrTxDone]
                   /\ \A v \in Values :
                          txnSet(handles[h], k, v) =
                              [t |-> handles[h], err |-> ErrTxDone]
            /\ PassResult(txnScan(lsm, handles[h], 0, {})) =
                   [t |-> handles[h], out |-> <<>>, err |-> ErrTxDone]
            /\ PassResult(txnAscend(lsm, handles[h], EmptyKey, EmptyKey, 0, {})) =
                   [t |-> handles[h], out |-> <<>>, err |-> ErrTxDone]
            /\ PassResult(txnDescend(lsm, handles[h], EmptyKey, EmptyKey, 0, {})) =
                   [t |-> handles[h], out |-> <<>>, err |-> ErrTxDone]

----------------------------------------------------------------------------
(* C10: for every pair of bounds that is not rejected, an Ascend run to    *)
(* exhaustion on an open handle yields exactly the visible keys k with     *)
(* begin <= k < end (an empty bound is no bound), each once, in strictly   *)
(* increasing order, each with its visible value.                          *)

\* k lies in [beg, end), where an empty bound is no bound.
InRange(k, beg, end) ==
    /\ beg = EmptyKey \/ KeyLeq(beg, k)
    /\ end = EmptyKey \/ KeyLess(k, end)

\* The keys handle h is to see: those its OwnView holds a value for.
VisibleKeys(h) == {k \in Keys : OwnView(h)[k].has /\ ~OwnView(h)[k].del}

AscendYieldsRange ==
    \A h \in H : \A b \in Bounds, e \in Bounds :
        Active(h) /\ ~(KeyLess(e, b) /\ e # EmptyKey) =>
            LET r == txnAscend(lsm, handles[h], b, e, 0, {})
            IN  /\ r.err = Nil
                /\ \A i \in 1..Len(r.out) : \A j \in 1..Len(r.out) :
                       i < j => KeyLess(r.out[i][1], r.out[j][1])
                /\ {r.out[i][1] : i \in 1..Len(r.out)} =
                       {k \in VisibleKeys(h) : InRange(k, b, e)}
                /\ \A i \in 1..Len(r.out) :
                       r.out[i][2] = OwnView(h)[r.out[i][1]].val

\* A Transaction that sees all four keys, one of them through its own
\* buffered Set, ascends from a stored key to a stored key: the first is
\* yielded, the second is not.
AscendYieldsRangeWitness ==
    \E h \in H :
        /\ Active(h) /\ VisibleKeys(h) = Keys
        /\ hist.h[h].wrote[<<2>>] = SetEntry(<<9>>)
        /\ <<2>> \in handles[h].tx.reads
        /\ txnAscend(lsm, handles[h], <<1, 1>>, <<3>>, 0, {}).out =
               << <<(<<1, 1>>), (<<1, 1>>)>>, <<(<<2>>), (<<9>>)>> >>

----------------------------------------------------------------------------
(* C11: for every pair of bounds that is not rejected, a Descend run to    *)
(* exhaustion on an open handle yields the pairs of the Ascend with the    *)
(* same bounds in reverse order, hence the keys of [begin, end) in         *)
(* strictly decreasing order.                                              *)

\* The sequence s back to front.
Reversed(s) == [i \in 1..Len(s) |-> s[Len(s) + 1 - i]]

DescendReversesAscend ==
    \A h \in H : \A b \in Bounds, e \in Bounds :
        Active(h) /\ ~(KeyLess(e, b) /\ e # EmptyKey) =>
            LET d == txnDescend(lsm, handles[h], b, e, 0, {})
                a == txnAscend(lsm, handles[h], b, e, 0, {})
            IN  /\ d.err = Nil /\ a.err = Nil
                /\ d.out = Reversed(a.out)
                /\ \A i \in 1..Len(d.out) : \A j \in 1..Len(d.out) :
                       i < j => KeyLess(d.out[j][1], d.out[i][1])
                /\ \A i \in 1..Len(d.out) : InRange(d.out[i][1], b, e)

\* A handle that sees all four keys descends between two stored keys: the
\* upper one is left out, the lower one comes last.
DescendReversesAscendWitness ==
    \E h \in H :
        /\ Active(h) /\ VisibleKeys(h) = Keys
        /\ txnDescend(lsm, handles[h], <<1, 1>>, <<3>>, 0, {}).out =
               << <<(<<2>>), (<<2>>)>>, <<(<<1, 1>>), (<<1, 1>>)>> >>
        /\ txnAscend(lsm, handles[h], <<1, 1>>, <<3>>, 0, {}).out =
               << <<(<<1, 1>>), (<<1, 1>>)>>, <<(<<2>>), (<<2>>)>> >>

----------------------------------------------------------------------------
(* C12: on every handle, Ascend and Descend with two non-empty bounds and  *)
(* begin > end store InvalidArgument in the error slot, yield no pair and  *)
(* leave the handle as it was; with begin = end, an empty begin or an      *)
(* empty end they never report InvalidArgument.                            *)
InvalidBoundsRejected ==
    \A h \in H : \A b \in Bounds, e \in Bounds : \A n \in StopAts :
        LET a == txnAscend(lsm, handles[h], b, e, n, {})
            d == txnDescend(lsm, handles[h], b, e, n, {})
        IN  IF b # EmptyKey /\ e # EmptyKey /\ KeyLess(e, b)
            THEN /\ a.err = ErrInvalid /\ a.out = <<>> /\ a.t = handles[h]
                 /\ d.err = ErrInvalid /\ d.out = <<>> /\ d.t = handles[h]
            ELSE a.err # ErrInvalid /\ d.err # ErrInvalid

\* An open handle that sees keys between the bounds is refused a pass from
\* <<3>> down to <<1, 1>>, while its passes with equal bounds and with one
\* bound empty run.
InvalidBoundsWitness ==
    \E h \in H :
        /\ Active(h) /\ {<<1, 1>>, <<2>>, <<3>>} \subseteq VisibleKeys(h)
        /\ txnAscend(lsm, handles[h], <<3>>, <<1, 1>>, 0, {}).err = ErrInvalid
        /\ txnDescend(lsm, handles[h], <<3>>, <<1, 1>>, 0, {}).err = ErrInvalid
        /\ PassResult(txnAscend(lsm, handles[h], <<2>>, <<2>>, 0, {})) =
               [t |-> Sought(handles[h], <<2>>), out |-> <<>>, err |-> Nil]
        /\ Len(txnAscend(lsm, handles[h], <<3>>, EmptyKey, 0, {}).out) = 1
        /\ txnDescend(lsm, handles[h], EmptyKey, <<1, 1>>, 0, {}).err = Nil
        /\ txnDescend(lsm, handles[h], <<3>>, EmptyKey, 0, {}).err = Nil

----------------------------------------------------------------------------
(* C13: on every open handle, Transaction or Snapshot, Get, Set and Delete *)
(* with an empty key fail with InvalidArgument and leave the handle        *)
(* unchanged (the committed store is no argument of theirs).               *)
EmptyKeyInvalid ==
    \A h \in H :
        Active(h) =>
            /\ txnGet(lsm, handles[h], EmptyKey).err = ErrInvalid
            /\ txnGet(lsm, handles[h], EmptyKey).t = handles[h]
            /\ \A v \in Values :
                   txnSet(handles[h], EmptyKey, v) =
                       [t |-> handles[h], err |-> ErrInvalid]
            /\ txnDelete(handles[h], EmptyKey) =
                   [t |-> handles[h], err |-> ErrInvalid]

----------------------------------------------------------------------------
(* C14: on an open Transaction, a Set whose value stream is nil fails with *)
(* InvalidArgument and buffers nothing, while a Set of a zero-length value *)
(* succeeds and a Get of the key then returns the empty value.             *)
NilValueInvalid ==
    \A h \in H : \A k \in Keys :
        handles[h].kind = "Transaction" /\ Active(h) =>
            /\ txnSet(handles[h], k, NilReader) =
                   [t |-> handles[h], err |-> ErrInvalid]
            /\ LET r == txnSet(handles[h], k, <<>>)
               IN  /\ r.err = Nil
                   /\ GetResult(lsm, r.t, k) = [err |-> Nil, val |-> <<>>]

----------------------------------------------------------------------------
(* C15: a handle opened now by NewTransaction or NewSnapshot observes,     *)
(* through Get and Scan, exactly the batches of the Commits that have      *)
(* succeeded so far, applied in commit order; and every open handle that   *)
(* has written nothing still observes the batches that had been committed  *)
(* when it was opened, and no others.                                      *)
NewHandleSeesCommitted ==
    /\ \A t \in {NewTransactionHandle(orc), NewSnapshotHandle(orc)} :
           \A k \in Keys :
               Shows(Observed(lsm, t), k, Replay(Len(hist.log))[k])
    /\ \A h \in H :
           Active(h) /\ hist.h[h].wrote = NoWrites =>
               \A k \in Keys :
                   Shows(Observed(lsm, handles[h]), k, Replay(hist.h[h].born)[k])

\* A Transaction has committed over the earlier contents, replacing or
\* removing a key, while a second Transaction opened afterwards holds a
\* buffered Set of another key: a handle opened now finds the committed
\* batch and nothing of the second Transaction.
NewHandleSeesCommittedWitness ==
    \E h \in H, g \in H, k \in Keys, j \in Keys :
        /\ Committed(h) /\ hist.h[h].seq = 2
        /\ hist.log[1][k].has /\ hist.h[h].wrote[k].has
        /\ Found(hist.log[1][k]) # Found(hist.h[h].wrote[k])
        /\ Active(g) /\ handles[g].kind = "Transaction"
        /\ hist.h[g].born = 2
        /\ hist.h[g].wrote[j].has /\ ~hist.h[g].wrote[j].del
        /\ ~hist.h[h].wrote[j].has
        /\ GetResult(lsm, NewTransactionHandle(orc), k) = Found(hist.h[h].wrote[k])
        /\ GetResult(lsm, NewSnapshotHandle(orc), j).err = ErrNotExist

----------------------------------------------------------------------------
(* C16: a Snapshot never holds a buffered write: every Set and Delete on   *)
(* it is refused and changes nothing, and its Commit and Discard return    *)
(* the store and the oracle as they were; and every step in which no       *)
(* handle is opened and no Transaction handle changes (so every step       *)
(* taken on a Snapshot) leaves the committed store, the oracle, and with   *)
(* them what every other handle observes, unchanged.                       *)
SnapshotForbidsMutation ==
    /\ [](\A h \in H :
             handles[h].kind = "Snapshot" =>
                 /\ handles[h].tx.pendingWrites = NoWrites
                 /\ hist.h[h].wrote = NoWrites /\ hist.h[h].seq = 0
                 /\ \A k \in Keys \cup {EmptyKey} :
                        /\ \A v \in Values :
                               LET r == txnSet(handles[h], k, v)
                               IN  r.err # Nil /\ r.t = handles[h]
                        /\ LET r == txnDelete(handles[h], k)
                           IN  r.err # Nil /\ r.t = handles[h]
                 /\ LET r == txnCommit(orc, lsm, handles[h])
                    IN  r.l = lsm /\ r.o = orc)
    /\ [][(/\ Len(handles') = Len(handles)
           /\ \A g \in H : handles[g].kind = "Transaction" =>
                               handles'[g] = handles[g])
          => /\ lsm' = lsm /\ orc' = orc
             /\ hist'.committed = hist.committed /\ hist'.log = hist.log]_vars

\* Commit has been called on a Snapshot and returned no error while a
\* Transaction holds buffered writes: the store still holds the contents
\* of the Snapshot's creation, and a handle opened now finds them.
SnapshotForbidsMutationWitness ==
    \E h \in H, g \in H :
        /\ handles[h].kind = "Snapshot"
        /\ hist.h[h].term = "Commit" /\ hist.h[h].termErr = Nil
        /\ handles[g].kind = "Transaction" /\ Active(g)
        /\ hist.h[g].wrote # NoWrites
        /\ hist.committed = hist.h[h].frozen
        /\ \A k \in Keys :
               GetResult(lsm, NewSnapshotHandle(orc), k) = Found(hist.h[h].frozen[k])

----------------------------------------------------------------------------
(* C17: on an active Transaction, for every key, visible or not, Delete    *)
(* returns no error (the engine reports no key absent on Delete), a Get of *)
(* the key then fails with NotFound and a Scan leaves it out, and a Set of *)
(* the key after that makes Get return the value set; and a key whose last *)
(* accepted write is a Delete reads as NotFound.                           *)
DeleteThenGetThenSet ==
    \A h \in H : \A k \in Keys :
        handles[h].kind = "Transaction" /\ Active(h) =>
            LET d == txnDelete(handles[h], k)
            IN  /\ d.err = Nil
                /\ GetResult(lsm, d.t, k) = [err |-> ErrNotExist, val |-> <<>>]
                /\ PairsOf(txnScan(lsm, d.t, 0, {}).out, k) = {}
                /\ \A v \in Values :
                       LET r == txnSet(d.t, k, v)
                       IN  /\ r.err = Nil
                           /\ GetResult(lsm, r.t, k) = [err |-> Nil, val |-> v]
                /\ hist.h[h].wrote[k] = DelEntry =>
                       GetResult(lsm, handles[h], k).err = ErrNotExist

\* An active Transaction has deleted a key it found committed and now
\* reads it as NotFound, and has deleted a key that was never there
\* without an error.
DeleteThenGetThenSetWitness ==
    \E h \in H, k \in Keys, j \in Keys :
        /\ handles[h].kind = "Transaction" /\ Active(h)
        /\ hist.h[h].frozen[k].has /\ ~hist.h[h].frozen[k].del
        /\ hist.h[h].wrote[k] = DelEntry
        /\ GetResult(lsm, handles[h], k).err = ErrNotExist
        /\ ~hist.h[h].frozen[j].has /\ hist.h[h].wrote[j] = DelEntry
        /\ GetResult(lsm, txnSet(handles[h], k, <<7>>).t, k) =
               [err |-> Nil, val |-> <<7>>]

----------------------------------------------------------------------------
(* C18: on every open handle, whatever has been committed since it was     *)
(* opened, a Scan and every Ascend and Descend with accepted bounds yield  *)
(* exactly the pairs, within the bounds, of the contents committed when    *)
(* the handle was opened overlaid with the handle's own accepted Sets and  *)
(* Deletes; for a Snapshot, which has none, the contents frozen at its     *)
(* creation.                                                               *)

\* The pass r yields, each once, the pairs of view whose key is in
\* [beg, end), and writes no error.
PassShows(r, view, beg, end) ==
    /\ r.err = Nil
    /\ {r.out[i] : i \in 1..Len(r.out)} =
           {<<k, view[k].val>> :
               k \in {x \in Keys : /\ view[x].has /\ ~view[x].del
                                   /\ InRange(x, beg, end)}}
    /\ \A i \in 1..Len(r.out) : \A j \in 1..Len(r.out) :
           r.out[i][1] = r.out[j][1] => i = j

IterationReflectsView ==
    \A h \in H :
        Active(h) =>
            /\ handles[h].kind = "Snapshot" => OwnView(h) = hist.h[h].frozen
            /\ PassShows(txnScan(lsm, handles[h], 0, {}), OwnView(h), EmptyKey, EmptyKey)
            /\ \A b \in TxnKeys, e \in TxnKeys :
                   ~(KeyLess(e, b) /\ e # EmptyKey) =>
                       /\ PassShows(txnAscend(lsm, handles[h], b, e, 0, {}),
                                    OwnView(h), b, e)
                       /\ PassShows(txnDescend(lsm, handles[h], b, e, 0, {}),
                                    OwnView(h), b, e)

\* An open Transaction holds a buffered Set of one key, and since it was
\* opened another Transaction has committed a change of a second key: its
\* Scan yields the second key as it was when it was opened, and its own
\* value for the first.
IterationReflectsViewWitness ==
    \E h \in H, g \in H, k \in Keys, j \in Keys :
        /\ handles[h].kind = "Transaction" /\ Active(h)
        /\ Committed(g) /\ CommittedDuring(g, h)
        /\ hist.h[h].frozen[j].has /\ hist.h[g].wrote[j].has
        /\ Found(hist.committed[j]) # Found(hist.h[h].frozen[j])
        /\ k # j /\ ~hist.h[h].frozen[k].has
        /\ hist.h[h].wrote[k].has /\ ~hist.h[h].wrote[k].del
        /\ PairsOf(txnScan(lsm, handles[h], 0, {}).out, j) =
               {<<j, hist.h[h].frozen[j].val>>}
        /\ PairsOf(txnScan(lsm, handles[h], 0, {}).out, k) =
               {<<k, hist.h[h].wrote[k].val>>}

----------------------------------------------------------------------------
(* C19: on every open handle, a Scan, Ascend or Descend during which the   *)
(* value of an entry cannot be read stores that error in the error slot    *)
(* and yields exactly the pairs that come before the first such entry,     *)
(* provided the consumer has not stopped before it; a pass that meets no   *)
(* such entry writes nothing to the error slot and yields the pairs up to  *)
(* its end or up to the consumer's stop.                                   *)

\* The pass r, run with the consumer stopping after n pairs (0: never)
\* and with the values of the keys in bad unreadable, against the pass
\* clean, run to its end with every value readable.
EndsAtFailure(clean, r, n, bad) ==
    LET hits == {i \in 1..Len(clean.out) : clean.out[i][1] \in bad}
        first == CHOOSE i \in hits : \A j \in hits : i <= j
    IN  IF hits # {} /\ (n = 0 \/ first <= n)
        THEN /\ r.err = ErrValueRead /\ r.exit = "error"
             /\ r.out = SubSeq(clean.out, 1, first - 1)
        ELSE /\ r.err = Nil /\ r.exit # "error"
             /\ r.out = IF n = 0 \/ n > Len(clean.out) THEN clean.out
                        ELSE SubSeq(clean.out, 1, n)

ValueReadErrorEndsPass ==
    \A h \in H : \A n \in StopAts, bad \in Faults :
        Active(h) =>
            /\ EndsAtFailure(txnScan(lsm, handles[h], 0, {}),
                             txnScan(lsm, handles[h], n, bad), n, bad)
            /\ \A b \in RunBounds, e \in RunBounds :
                   ~(KeyLess(e, b) /\ e # EmptyKey) =>
                       /\ EndsAtFailure(txnAscend(lsm, handles[h], b, e, 0, {}),
                                        txnAscend(lsm, handles[h], b, e, n, bad),
                                        n, bad)
                       /\ EndsAtFailure(txnDescend(lsm, handles[h], b, e, 0, {}),
                                        txnDescend(lsm, handles[h], b, e, n, bad),
                                        n, bad)

\* A Transaction that sees all four keys has read the first three and not
\* the last, as a Scan leaves it that could not read the value of the
\* third; such a Scan yields the first two pairs and stores the error.
ValueReadErrorWitness ==
    \E h \in H :
        /\ handles[h].kind = "Transaction" /\ Active(h)
        /\ VisibleKeys(h) = Keys /\ WroteKeys(h) = {}
        /\ handles[h].tx.reads = {<<1>>, <<1, 1>>, <<2>>}
        /\ PassResult(txnScan(lsm, handles[h], 0, {<<2>>})) =
               [t |-> handles[h],
                out |-> << <<(<<1>>), (<<1>>)>>, <<(<<1, 1>>), (<<1, 1>>)>> >>,
                err |-> ErrValueRead]

----------------------------------------------------------------------------
(* C20: no handle has an open cursor between calls; on an open handle      *)
(* every Scan, Ascend and Descend whose bounds are accepted closes its     *)
(* cursor once and leaves none open, however it ends (keys exhausted,      *)
(* bound reached, consumer stopped, value unreadable), so that a Commit or *)
(* Rollback after it does not meet an unclosed cursor; a pass whose bounds *)
(* are rejected opens and closes none.                                     *)

\* The pass r from handle t opened one cursor and closed it once.
ClosedOnce(r) ==
    /\ r.closes = 1 /\ r.t.tx.numIterators = 0
    /\ r.exit \in {"exhausted", "bound", "stopped", "error"}
    /\ txnCommit(orc, lsm, r.t).err # Panic
    /\ txnDiscard(orc, lsm, r.t).err # Panic

CursorClosedOnce ==
    \A h \in H :
        /\ handles[h].tx.numIterators = 0
        /\ Active(h) =>
               \A n \in StopAts, bad \in Faults :
                   /\ ClosedOnce(txnScan(lsm, handles[h], n, bad))
                   /\ \A b \in RunBounds, e \in RunBounds :
                          LET a == txnAscend(lsm, handles[h], b, e, n, bad)
                              d == txnDescend(lsm, handles[h], b, e, n, bad)
                          IN  IF KeyLess(e, b) /\ e # EmptyKey
                              THEN /\ a.closes = 0 /\ a.t = handles[h]
                                   /\ d.closes = 0 /\ d.t = handles[h]
                              ELSE ClosedOnce(a) /\ ClosedOnce(d)

\* A Transaction that sees all four keys has run a pass (it has read keys)
\* and holds a buffered Set: from here a pass can end in each of the four
\* ways, each closing its cursor once, and the Commit that follows goes
\* through.
CursorClosedOnceWitness ==
    \E h \in H :
        /\ handles[h].kind = "Transaction" /\ Active(h)
        /\ VisibleKeys(h) = Keys /\ WroteKeys(h) # {}
        /\ handles[h].tx.reads # {} /\ handles[h].tx.numIterators = 0
        /\ txnScan(lsm, handles[h], 0, {}).exit = "exhausted"
        /\ txnAscend(lsm, handles[h], EmptyKey, <<3>>, 0, {}).exit = "bound"
        /\ txnDescend(lsm, handles[h], <<1, 1>>, EmptyKey, 1, {}).exit = "stopped"
        /\ txnScan(lsm, handles[h], 0, {<<2>>}).exit = "error"
        /\ txnScan(lsm, handles[h], 0, {<<2>>}).closes = 1
        /\ txnCommit(orc, lsm, txnScan(lsm, handles[h], 1, {}).t).err = Nil

====
